---- MODULE Spec2Model ----
(***************************************************************************)
(* A model of two widgets of the Textual demo:                             *)
(*                                                                         *)
(*   StarCount (src/textual/demo/home.py): a widget holding two reactive   *)
(*   counters, refreshed by an asynchronous worker (get_stars) started on  *)
(*   mount and on every click.                                             *)
(*                                                                         *)
(*   KeyPanel (src/textual/widgets/_key_panel.py): a panel subscribed to   *)
(*   its screen's bindings-updated signal between mount and unmount.       *)
(*                                                                         *)
(* The two widgets share no state; each has its own specification          *)
(* (Spec for StarCount, KeyPanelSpec for KeyPanel).                        *)
(***************************************************************************)
EXTENDS Integers, Sequences, FiniteSets, TLC

(***************************************************************************)
(* Bounds of the model.                                                    *)
(***************************************************************************)
\* Activations of StarCount that are modelled: the mount and MaxAttempts - 1 clicks.
MaxAttempts == 2
\* The counts a response may carry are 1..MaxCount.
MaxCount == 2
\* Deliveries of the bindings-updated signal that are modelled.
MaxSignals == 3

(***************************************************************************)
(* Program constants.                                                      *)
(***************************************************************************)
\* stars = reactive(25251, recompose=True)
DefaultStars == 25251
\* forks = reactive(776, recompose=True)
DefaultForks == 776

VARIABLES
    \* ---- StarCount ----
    HTTPX_AVAILABLE,  \* whether `import httpx` succeeded; fixed for a run
    mounted,          \* on_mount has run
    tooltip,          \* self.tooltip
    stars,            \* reactive stars
    forks,            \* reactive forks
    loading,          \* reactive loading (set by get_stars)
    pc,               \* per worker: where its coroutine stands
    response,         \* per worker: what the request and .json() produced
    notices,          \* per worker: the notify() calls it made, in order
    requests,         \* per worker: number of GET requests issued
    \* ---- history of StarCount, read by the properties only ----
    activations,      \* number of on_mount / on_click events handled
    atStart,          \* per worker: <<stars, forks>> when it set loading = True
    overlapped,       \* workers that were in flight together with another one
    finished,         \* workers in the order in which they left get_stars
    \* ---- KeyPanel ----
    panel,            \* lifecycle of the panel
    is_attached,      \* KeyPanel.is_attached
    app_focus,        \* screen.app.app_focus
    subscriptions,    \* screens whose bindings_updated_signal holds the panel
    recomposes,       \* number of refresh(recompose=True) calls
    delivered,        \* number of bindings_changed calls
    lastData          \* the screen passed to the last bindings_changed call

starVars == <<HTTPX_AVAILABLE, mounted, tooltip, stars, forks, loading, pc, response,
              notices, requests, activations, atStart, overlapped, finished>>
panelVars == <<panel, is_attached, app_focus, subscriptions, recomposes,
               delivered, lastData>>
vars == <<starVars, panelVars>>

(***************************************************************************)
(* StarCount                                                               *)
(***************************************************************************)
Workers == 1..MaxAttempts
Counts == 1..MaxCount

\* The keys get_stars reads from the parsed body.
Fields == {"stargazers_count", "forks"}

\* A parsed JSON body, as far as get_stars reads it: a dict holding any subset
\* of the two keys.
Dicts == UNION {[K -> Counts] : K \in SUBSET Fields}
EmptyDict == [k \in {} |-> 1]

\* What the request can raise before a body is parsed: the GET itself
\* (connection, timeout) or .json() on a malformed body.
RequestErrors == {"HTTPError", "JSONDecodeError"}

\* What `async with client: (await client.get(...)).json()` produces.
Responses ==
    {[raised |-> e, json |-> EmptyDict] : e \in RequestErrors}
    \cup {[raised |-> "none", json |-> d] : d \in Dicts}
NoResponse == [raised |-> "none", json |-> EmptyDict]

\* A mutant of Caught: the handler names the request's errors only.
CaughtRequestErrorsOnly(e) == e \in {"HTTPError", "JSONDecodeError"}

\* The classes `except Exception` catches, among those the try body can raise.
Caught(e) == e \in {"HTTPError", "JSONDecodeError", "KeyError"}

InfoNotice == [title |-> "GitHub Stars", severity |-> "information"]
ErrorNotice == [title |-> "GitHub stars", severity |-> "error"]

InFlight(w) == pc[w] \in {"sleep", "get"}
PendingBefore(w) == \E v \in Workers : v < w /\ pc[v] = "pending"

\* A mutant of Extract: the two keys are read into the wrong attributes.
ExtractSwapped(r, s, f) ==
    IF r.raised # "none"
    THEN [stars |-> s, forks |-> f, exc |-> r.raised]
    ELSE IF "stargazers_count" \notin DOMAIN r.json
    THEN [stars |-> s, forks |-> f, exc |-> "KeyError"]
    ELSE IF "forks" \notin DOMAIN r.json
    THEN [stars |-> r.json["stargazers_count"], forks |-> f, exc |-> "KeyError"]
    ELSE [stars |-> r.json["forks"], forks |-> r.json["stargazers_count"],
          exc |-> "none"]

\* The part of the try body that follows the request (lines 175-176), run on
\* response r with the current stars s and forks f: the two assignments in
\* order, each of which may raise KeyError.
Extract(r, s, f) ==
    IF r.raised # "none"
    THEN [stars |-> s, forks |-> f, exc |-> r.raised]
    ELSE IF "stargazers_count" \notin DOMAIN r.json
    THEN [stars |-> s, forks |-> f, exc |-> "KeyError"]
    ELSE IF "forks" \notin DOMAIN r.json
    THEN [stars |-> r.json["stargazers_count"], forks |-> f, exc |-> "KeyError"]
    ELSE [stars |-> r.json["stargazers_count"], forks |-> r.json["forks"],
          exc |-> "none"]

\* self.get_stars() on a @work method: a new worker is created and scheduled;
\* nothing of its body has run yet. @work is not exclusive: the workers
\* already running are left alone.
StartWorker ==
    \E w \in Workers :
        /\ pc[w] = "none"
        /\ \A v \in Workers : v < w => pc[v] # "none"
        /\ pc' = [pc EXCEPT ![w] = "pending"]

on_mount ==
    /\ ~mounted
    /\ mounted' = TRUE
    /\ tooltip' = "Click to refresh"
    /\ activations' = activations + 1
    /\ StartWorker
    /\ UNCHANGED <<HTTPX_AVAILABLE, stars, forks, loading, response, notices,
                   requests, atStart, overlapped, finished>>
    /\ UNCHANGED panelVars

\* A mutant of on_click: a click while loading is dropped.
on_clickIgnoredWhileLoading ==
    /\ mounted
    /\ activations < MaxAttempts
    /\ activations' = activations + 1
    /\ IF loading THEN UNCHANGED pc ELSE StartWorker
    /\ UNCHANGED <<HTTPX_AVAILABLE, mounted, tooltip, stars, forks, loading, response,
                   notices, requests, atStart, overlapped, finished>>
    /\ UNCHANGED panelVars

on_click ==
    /\ mounted
    /\ activations < MaxAttempts
    /\ activations' = activations + 1
    /\ StartWorker
    /\ UNCHANGED <<HTTPX_AVAILABLE, mounted, tooltip, stars, forks, loading, response,
                   notices, requests, atStart, overlapped, finished>>
    /\ UNCHANGED panelVars

\* A mutant of Unavailable: the `return` after the notice is missing, so the
\* worker goes on to the fetch.
UnavailableNoReturn(w) ==
    /\ pc[w] = "pending"
    /\ ~PendingBefore(w)
    /\ ~HTTPX_AVAILABLE
    /\ notices' = [notices EXCEPT ![w] = Append(@, InfoNotice)]
    /\ loading' = TRUE
    /\ pc' = [pc EXCEPT ![w] = "sleep"]
    /\ UNCHANGED <<HTTPX_AVAILABLE, mounted, tooltip, stars, forks, response, requests,
                   activations, atStart, overlapped, finished>>
    /\ UNCHANGED panelVars

\* get_stars, first segment with the capability missing (lines 162-167).
Unavailable(w) ==
    /\ pc[w] = "pending"
    /\ ~PendingBefore(w)
    /\ ~HTTPX_AVAILABLE
    /\ notices' = [notices EXCEPT ![w] = Append(@, InfoNotice)]
    /\ pc' = [pc EXCEPT ![w] = "done"]
    /\ finished' = Append(finished, w)
    /\ UNCHANGED <<HTTPX_AVAILABLE, mounted, tooltip, stars, forks, loading, response,
                   requests, activations, atStart, overlapped>>
    /\ UNCHANGED panelVars

\* A mutant of Begin: a worker that finds loading already set returns at once.
BeginUnlessLoading(w) ==
    /\ pc[w] = "pending"
    /\ ~PendingBefore(w)
    /\ HTTPX_AVAILABLE
    /\ IF loading
       THEN /\ pc' = [pc EXCEPT ![w] = "done"]
            /\ finished' = Append(finished, w)
            /\ UNCHANGED <<loading, atStart>>
       ELSE /\ loading' = TRUE
            /\ pc' = [pc EXCEPT ![w] = "sleep"]
            /\ atStart' = [atStart EXCEPT ![w] = <<stars, forks>>]
            /\ UNCHANGED finished
    /\ UNCHANGED <<HTTPX_AVAILABLE, mounted, tooltip, stars, forks, response, notices,
                   requests, activations, overlapped>>
    /\ UNCHANGED panelVars

\* get_stars, first segment with the capability present (lines 162, 168-170):
\* sets loading and suspends in asyncio.sleep(1).
Begin(w) ==
    /\ pc[w] = "pending"
    /\ ~PendingBefore(w)
    /\ HTTPX_AVAILABLE
    /\ loading' = TRUE
    /\ pc' = [pc EXCEPT ![w] = "sleep"]
    /\ atStart' = [atStart EXCEPT ![w] = <<stars, forks>>]
    /\ overlapped' =
           IF \E v \in Workers \ {w} : InFlight(v)
           THEN overlapped \cup {w} \cup {v \in Workers : InFlight(v)}
           ELSE overlapped
    /\ UNCHANGED <<HTTPX_AVAILABLE, mounted, tooltip, stars, forks, response, notices,
                   requests, activations, finished>>
    /\ UNCHANGED panelVars

\* The sleep returns; the client is opened and the GET issued (lines 171-173).
\* asyncio.sleep raises nothing but the cancellation of its task, and nothing
\* in these sources cancels a worker: cancellation is not modelled.
IssueGet(w) ==
    /\ pc[w] = "sleep"
    /\ pc' = [pc EXCEPT ![w] = "get"]
    /\ requests' = [requests EXCEPT ![w] = @ + 1]
    /\ UNCHANGED <<HTTPX_AVAILABLE, mounted, tooltip, stars, forks, loading, response,
                   notices, activations, atStart, overlapped, finished>>
    /\ UNCHANGED panelVars

\* A mutant of LoadingAfterTry: the reset sits at the end of the try body, so
\* an exception skips it.
LoadingResetInTryBody(exc, cur) == IF exc = "none" THEN FALSE ELSE cur

\* self.loading = False (line 183) follows the try statement: it runs after
\* the try body and after the handler alike, whatever loading (cur) was.
LoadingAfterTry(exc, cur) == FALSE

\* The request completes with r; the rest of get_stars runs without suspending
\* (lines 174-183).
Complete(w, r) ==
    LET x == Extract(r, stars, forks) IN
    /\ pc[w] = "get"
    /\ response' = [response EXCEPT ![w] = r]
    /\ stars' = x.stars
    /\ forks' = x.forks
    /\ finished' = Append(finished, w)
    /\ IF x.exc = "none"
       THEN /\ loading' = LoadingAfterTry(x.exc, loading)
            /\ pc' = [pc EXCEPT ![w] = "done"]
            /\ UNCHANGED notices
       ELSE IF Caught(x.exc)
       THEN /\ notices' = [notices EXCEPT ![w] = Append(@, ErrorNotice)]
            /\ loading' = LoadingAfterTry(x.exc, loading)
            /\ pc' = [pc EXCEPT ![w] = "done"]
       ELSE /\ pc' = [pc EXCEPT ![w] = "raised"]
            /\ UNCHANGED <<loading, notices>>
    /\ UNCHANGED <<HTTPX_AVAILABLE, mounted, tooltip, requests, activations, atStart,
                   overlapped>>
    /\ UNCHANGED panelVars

get_stars ==
    \E w \in Workers :
        \/ Unavailable(w)
        \/ Begin(w)
        \/ IssueGet(w)
        \/ \E r \in Responses : Complete(w, r)

(***************************************************************************)
(* KeyPanel                                                                *)
(***************************************************************************)
\* The screens of the app; the panel is mounted on PanelScreen (self.screen).
Screens == {"screenA", "screenB"}
PanelScreen == "screenA"

\* The panel is added to the DOM of its screen.
Attach ==
    /\ panel = "new"
    /\ ~is_attached
    /\ is_attached' = TRUE
    /\ UNCHANGED <<panel, app_focus, subscriptions, recomposes, delivered,
                   lastData>>
    /\ UNCHANGED starVars

\* The panel, or an ancestor of it, is being removed from the DOM.
Detach ==
    /\ is_attached
    /\ is_attached' = FALSE
    /\ UNCHANGED <<panel, app_focus, subscriptions, recomposes, delivered,
                   lastData>>
    /\ UNCHANGED starVars

\* The terminal gains or loses focus.
FocusChange ==
    /\ app_focus' = ~app_focus
    /\ UNCHANGED <<panel, is_attached, subscriptions, recomposes, delivered,
                   lastData>>
    /\ UNCHANGED starVars

\* KeyPanel.on_mount: subscribe(self, bindings_changed) on the screen's signal.
KeyPanel_on_mount ==
    /\ panel = "new"
    /\ is_attached
    /\ panel' = "mounted"
    /\ subscriptions' = subscriptions \cup {PanelScreen}
    /\ UNCHANGED <<is_attached, app_focus, recomposes, delivered, lastData>>
    /\ UNCHANGED starVars

\* KeyPanel.on_unmount: unsubscribe(self) on the screen's signal.
KeyPanel_on_unmount ==
    /\ panel = "mounted"
    /\ panel' = "unmounted"
    /\ subscriptions' = subscriptions \ {PanelScreen}
    /\ UNCHANGED <<is_attached, app_focus, recomposes, delivered, lastData>>
    /\ UNCHANGED starVars

\* A mutant of ShouldRecompose: the app_focus test is missing.
ShouldRecomposeWithoutFocus(screen) == is_attached /\ screen = PanelScreen

\* The two tests of bindings_changed (lines 138-140).
ShouldRecompose(screen) ==
    IF ~app_focus THEN FALSE ELSE is_attached /\ screen = PanelScreen

\* The signal of screen `signal` publishes `screen`; the panel, being a
\* subscriber of that signal, has bindings_changed(screen) called.
bindings_changed(signal, screen) ==
    /\ signal \in subscriptions
    /\ delivered < MaxSignals
    /\ delivered' = delivered + 1
    /\ lastData' = screen
    /\ recomposes' = IF ShouldRecompose(screen) THEN recomposes + 1 ELSE recomposes
    /\ UNCHANGED <<panel, is_attached, app_focus, subscriptions>>
    /\ UNCHANGED starVars

Publish == \E signal \in Screens, screen \in Screens : bindings_changed(signal, screen)

PanelInit ==
    /\ panel = "new"
    /\ is_attached = FALSE
    /\ app_focus = TRUE
    /\ subscriptions = {}
    /\ recomposes = 0
    /\ delivered = 0
    /\ lastData = "none"

StarInit ==
    /\ mounted = FALSE
    /\ tooltip = ""
    /\ stars = DefaultStars
    /\ forks = DefaultForks
    /\ loading = FALSE
    /\ pc = [w \in Workers |-> "none"]
    /\ response = [w \in Workers |-> NoResponse]
    /\ notices = [w \in Workers |-> <<>>]
    /\ requests = [w \in Workers |-> 0]
    /\ activations = 0
    /\ atStart = [w \in Workers |-> <<DefaultStars, DefaultForks>>]
    /\ overlapped = {}
    /\ finished = <<>>

(***************************************************************************)
(* Specifications                                                          *)
(***************************************************************************)
Init ==
    /\ HTTPX_AVAILABLE \in BOOLEAN
    /\ StarInit
    /\ PanelInit

Next ==
    \/ on_mount
    \/ on_click
    \/ get_stars

\* StarCount: the mount, the clicks and the workers, in any interleaving.
Spec == Init /\ [][Next]_vars

KeyPanelInit ==
    /\ HTTPX_AVAILABLE = TRUE
    /\ StarInit
    /\ PanelInit

KeyPanelNext ==
    \/ Attach
    \/ Detach
    \/ FocusChange
    \/ KeyPanel_on_mount
    \/ KeyPanel_on_unmount
    \/ Publish

\* KeyPanel: its lifecycle, focus changes and signal deliveries.
KeyPanelSpec == KeyPanelInit /\ [][KeyPanelNext]_vars

(***************************************************************************)
(* Properties                                                              *)
(***************************************************************************)
Full(r) == r.raised = "none" /\ DOMAIN r.json = Fields
Failed(r) == ~Full(r)
FieldsOf(r) == <<r.json["stargazers_count"], r.json["forks"]>>

\* Worker w leaves get_stars in this step, the request having completed.
Completes(w) == pc[w] = "get" /\ pc'[w] # "get"
\* Worker w passes the capability check and sets loading in this step.
Begins(w) == pc[w] = "pending" /\ pc'[w] = "sleep"

\* C1: when an attempt (capability available) ends with an exception raised
\* by the request, the parse or the extraction of the two fields, stars and
\* forks are what they were when the attempt started, and loading is false.
C1_FailureKeepsValues ==
    [][\A w \in Workers :
          (Completes(w) /\ Failed(response'[w]))
              => (<<stars', forks'>> = atStart[w] /\ loading' = FALSE)]_vars

\* C2: loading is false while no attempt is in flight, true in every state in
\* which an attempt that overlaps no other is in flight, and false again
\* in the state a completing attempt leaves, whether it succeeded or failed.
C2_LoadingBrackets ==
    /\ [](\A w \in Workers : (InFlight(w) /\ w \notin overlapped) => loading = TRUE)
    /\ []((\A w \in Workers : ~InFlight(w)) => loading = FALSE)
    /\ [][\A w \in Workers : Completes(w) => loading' = FALSE]_vars

\* C2 witness: the first attempt failed and has completed, the second is in
\* flight after it, neither overlapped, and loading is true again.
C2_Witness ==
    /\ pc[1] = "done" /\ Failed(response[1]) /\ requests[1] = 1
    /\ pc[2] = "get"
    /\ overlapped = {}
    /\ loading = TRUE

\* C3: loading is true exactly when one attempt is in flight.
C3_LoadingIffOneInFlight ==
    loading = TRUE <=> Cardinality({w \in Workers : InFlight(w)}) = 1

\* C4: without the capability, no call of get_stars changes stars or forks,
\* sets loading, sleeps or issues a request, and each call that has run has
\* emitted exactly one notice, of information severity.
C4_NoCapabilityNoEffect ==
    ~HTTPX_AVAILABLE =>
        /\ stars = DefaultStars
        /\ forks = DefaultForks
        /\ loading = FALSE
        /\ \A w \in Workers :
              /\ pc[w] \in {"none", "pending", "done"}
              /\ requests[w] = 0
              /\ notices[w] = IF pc[w] = "done" THEN <<InfoNotice>> ELSE <<>>
              /\ InfoNotice.severity # "error"

\* C4 witness: without the capability, every modelled call has run.
C4_Witness ==
    /\ ~HTTPX_AVAILABLE
    /\ \A w \in Workers : pc[w] = "done" /\ Len(notices[w]) = 1

\* C5: when an attempt that overlaps no other completes on a body holding
\* both fields, stars and forks are those two fields and loading is false,
\* whatever stars and forks were.
C5_SuccessMapsFields ==
    [][\A w \in Workers :
          (Completes(w) /\ w \notin overlapped /\ Full(response'[w]))
              => /\ stars' = response'[w].json["stargazers_count"]
                 /\ forks' = response'[w].json["forks"]
                 /\ loading' = FALSE]_vars

\* C5 witness: the second attempt, started from values fetched by the first,
\* has completed alone on a body whose two fields differ from each other and
\* from the values it started from.
C5_Witness ==
    /\ pc[2] = "done" /\ Full(response[2]) /\ overlapped = {}
    /\ atStart[2] # <<DefaultStars, DefaultForks>>
    /\ stars = response[2].json["stargazers_count"]
    /\ forks = response[2].json["forks"]
    /\ stars # forks
    /\ stars # atStart[2][1] /\ forks # atStart[2][2]
    /\ loading = FALSE

\* C6: the pair (stars, forks) is always either the construction defaults or
\* the two fields of one response that an attempt received.
C6_PairFromOneResponse ==
    \/ <<stars, forks>> = <<DefaultStars, DefaultForks>>
    \/ \E w \in Workers :
          pc[w] = "done" /\ Full(response[w]) /\ <<stars, forks>> = FieldsOf(response[w])

\* C7: no exception leaves get_stars: an attempt that failed has returned
\* normally having emitted exactly one notice, of error severity; an attempt
\* that succeeded has emitted none; an attempt still running has emitted none.
C7_FailuresBecomeOneNotice ==
    HTTPX_AVAILABLE =>
        \A w \in Workers :
            /\ pc[w] # "raised"
            /\ pc[w] = "done" =>
                  notices[w] = IF Failed(response[w]) THEN <<ErrorNotice>> ELSE <<>>
            /\ pc[w] # "done" => notices[w] = <<>>
            /\ ErrorNotice.severity = "error"

\* C7 witness: one attempt failed in the request and one in the extraction
\* of the second field; both returned with one error notice each.
C7_Witness ==
    /\ pc[1] = "done" /\ response[1].raised = "HTTPError"
    /\ pc[2] = "done" /\ response[2].raised = "none"
    /\ DOMAIN response[2].json = {"stargazers_count"}
    /\ notices[1] = <<ErrorNotice>> /\ notices[2] = <<ErrorNotice>>

C10_RecomposeOnlyWhenLive ==
    /\ [](subscriptions = IF panel = "mounted" THEN {PanelScreen} ELSE {})
    /\ [][/\ recomposes' # recomposes =>
                /\ delivered' = delivered + 1
                /\ recomposes' = recomposes + 1
                /\ app_focus /\ is_attached /\ lastData' = PanelScreen
                /\ panel = "mounted"
          /\ (delivered' # delivered
                 /\ ~(app_focus /\ is_attached /\ lastData' = PanelScreen)) =>
                UNCHANGED <<recomposes, panel, is_attached, app_focus, subscriptions>>
          /\ panel = "unmounted" => recomposes' = recomposes]_vars

\* C10 witness: the panel has been unmounted after a delivery that requested
\* a recompose and deliveries that did not (without focus, detached, or for
\* another screen).
C10_Witness ==
    /\ panel = "unmounted"
    /\ subscriptions = {}
    /\ recomposes = 1
    /\ delivered = MaxSignals
    /\ lastData = "screenB"

====
